---- MODULE Spec2Model ----
(***************************************************************************)
(* Model of src/texture_network.py: the multi-scale texture generator      *)
(* (input_pyramid, noise_pyramid, conv_block, conv_chain, join_block,      *)
(* TextureNetwork.__init__) and its training loop (TextureNetwork.         *)
(* run_train).                                                             *)
(*                                                                         *)
(* A tensor is a record [b, h, w, chans]: batch size, height, width and    *)
(* the channel axis as a sequence of tags naming where each channel came   *)
(* from; its channel count is Len(chans).  Numeric contents are abstracted *)
(* except for one representative pixel of the rendered image.              *)
(***************************************************************************)
EXTENDS Integers, Sequences, FiniteSets, TLC

\* ---------------------------------------------------------------- bounds
MaxM == 16          \* largest small target size tried besides inputDimension
MaxK == 5           \* largest pyramid depth tried
MaxB == 2           \* largest batch size tried
SmallEpochs == 2    \* run lengths tried together with varying M, K, B
MaxEpochs == 41     \* run lengths tried with the program's own M, K, B
PixSpan == 2        \* half-width of each window of pixel values tried
MaxDim == 3         \* largest spatial extent of a join_block test input
MaxChan == 3        \* largest channel count of a join_block test input

\* ------------------------------------------------------ program constants
inputDimension == 224
channelStepSize == 8
batchSize == 1
baseChannels == 8
defaultK == 5
checkpointInterval == 20
alphaPercent == 1   \* the leaky slope .01, in hundredths
outputChannels == 3
noiseChannels == 3
PixDen == 510       \* a pixel value v is held as the integer v * PixDen

VARIABLES
    M, K, B, epochs,            \* configuration of the run
    pc,                         \* position in __init__ / run_train
    noise_inputs,               \* self.noise_inputs: the K placeholders
    current_channels,           \* __init__ local
    current_noise_aggregate,    \* __init__ local
    level,                      \* number of fusion stages built so far
    low_res_out, high_res_out,  \* __init__ locals of the last stage
    final_chain,                \* __init__ local
    output,                     \* self.output
    i,                          \* run_train loop counter
    samples,                    \* number of noise_pyramid calls so far
    noise,                      \* run_train local: last sampled pyramid
    feed_dict,                  \* run_train local: placeholder index -> array
    updates,                    \* number of optimizer updates applied
    last_update,                \* what the last optimizer update was fed
    checkpoints,                \* checkpoint sink: snapshots written
    images,                     \* rendered-image sink: images written
    network_out, img_out,       \* run_train locals of the last rendering
    jb_lower, jb_higher, jb_out \* join_block applied to free-standing inputs

vars == << M, K, B, epochs, pc, noise_inputs, current_channels,
           current_noise_aggregate, level, low_res_out, high_res_out,
           final_chain, output, i, samples, noise, feed_dict, updates,
           last_update, checkpoints, images, network_out, img_out,
           jb_lower, jb_higher, jb_out >>

None == [b |-> 0, h |-> 0, w |-> 0, chans |-> << >>]

\* ---------------------------------------------------------------- helpers
RECURSIVE Pow2(_)
Pow2(x) == IF x = 0 THEN 1 ELSE 2 * Pow2(x - 1)

Reverse(s) == [j \in 1..Len(s) |-> s[Len(s) + 1 - j]]

Tags(n, tag) == [c \in 1..n |-> tag]

Shape(t) == << t.b, t.h, t.w, Len(t.chans) >>

\* tf.placeholder(tf.float32, [batch, h, w, c], name)
placeholder(shape, name) ==
    [b |-> shape[1], h |-> shape[2], w |-> shape[3], chans |-> Tags(shape[4], name)]

\* np.random.rand(batch, h, w, c)
np_random_rand(b, h, w, c) ==
    [b |-> b, h |-> h, w |-> w, chans |-> Tags(c, "rand")]

input_pyramid(name, m, batch_size, k) ==
    LET return_val == [x1 \in 1..k |->
            LET x == x1 - 1 IN
            placeholder(<< batch_size, m \div Pow2(x), m \div Pow2(x), noiseChannels >>, name)]
    IN  Reverse(return_val)

\* the list is returned finest first (no [::-1])
noise_pyramid_unreversed(m, batch_size, k) ==
    [x1 \in 1..k |->
            LET x == x1 - 1 IN
            np_random_rand(batch_size, m \div Pow2(x), m \div Pow2(x), noiseChannels)]

noise_pyramid(m, batch_size, k) ==
    Reverse([x1 \in 1..k |->
            LET x == x1 - 1 IN
            np_random_rand(batch_size, m \div Pow2(x), m \div Pow2(x), noiseChannels)])

\* network_helpers.conv2d: convolution with same-padding and bias
conv2d(input_layer, weights, biases, name) ==
    [b |-> input_layer.b, h |-> input_layer.h, w |-> input_layer.w,
     chans |-> Tags(weights[4], name)]

\* network_helpers.spatial_batch_norm: per-channel normalisation
spatial_batch_norm(input_layer) == input_layer

leaky_relu(input_layer, alpha) == input_layer

conv_block(name, input_layer, kernel_size, out_channels) ==
    LET in_channels == Len(input_layer.chans)
        weights == << kernel_size, kernel_size, in_channels, out_channels >>
        biases == << out_channels >>
        conv == conv2d(input_layer, weights, biases, name)
        batch_norm == spatial_batch_norm(conv)
        relu == leaky_relu(batch_norm, alphaPercent)
    IN  relu

conv_chain(name, input_layer, out_channels) ==
    LET block1 == conv_block(name, input_layer, 3, out_channels)
        block2 == conv_block(name, block1, 3, out_channels)
        block3 == conv_block(name, block2, 1, out_channels)
    IN  block3

\* the images keep their own size
resize_nearest_neighbor_noop(images_, size) == images_

\* tf.image.resize_nearest_neighbor(images, [new_h, new_w])
resize_nearest_neighbor(images_, size) ==
    [images_ EXCEPT !.h = size[1], !.w = size[2]]

\* tf.concat(3, [a, b]): concatenation along the channel axis
concat3(a, b) == [b |-> a.b, h |-> a.h, w |-> a.w, chans |-> a.chans \o b.chans]

\* the higher-resolution layer is concatenated first
join_block_swapped(name, lower_res_layer, higher_res_layer) ==
    LET upsampled == resize_nearest_neighbor(lower_res_layer,
                         << higher_res_layer.h, higher_res_layer.w >>)
        batch_norm_lower == spatial_batch_norm(upsampled)
        batch_norm_higher == spatial_batch_norm(higher_res_layer)
    IN  concat3(batch_norm_higher, batch_norm_lower)

join_block(name, lower_res_layer, higher_res_layer) ==
    LET upsampled == resize_nearest_neighbor(lower_res_layer,
                         << higher_res_layer.h, higher_res_layer.w >>)
        batch_norm_lower == spatial_batch_norm(upsampled)
        batch_norm_higher == spatial_batch_norm(higher_res_layer)
    IN  concat3(batch_norm_lower, batch_norm_higher)

\* ------------------------------------------------------- pixel arithmetic
\* numbers are numerators over PixDen
Times255(n) == n * 255

np_clip(n, lo, hi) ==
    IF n < lo * PixDen THEN lo * PixDen
    ELSE IF n > hi * PixDen THEN hi * PixDen ELSE n

\* the value is rounded to the nearest integer instead of truncated
astype_uint8_rounding(n) ==
    LET t == IF n >= 0 THEN (2 * n + PixDen) \div (2 * PixDen)
             ELSE -((2 * (-n) + PixDen) \div (2 * PixDen))
    IN  t % 256

\* astype('uint8') of a finite value: drop the fraction, keep the low 8 bits
astype_uint8(n) ==
    LET t == IF n >= 0 THEN n \div PixDen ELSE -((-n) \div PixDen)
    IN  t % 256

PixNums == { c + d : c \in {0, PixDen \div 2, PixDen, 255 * PixDen}, d \in -PixSpan..PixSpan }

\* a float32 pixel value: a finite number n / PixDen, or NaN
PixelValues == [nan : {FALSE}, n : PixNums] \cup {[nan |-> TRUE, n |-> 0]}

\* the bytes np.clip(network_out * 255.0, 0, 255).astype('uint8') can yield;
\* the conversion of NaN to an integer type is undefined
ImgOut(v) ==
    IF v.nan THEN 0..255
    ELSE { astype_uint8(np_clip(Times255(v.n), 0, 255)) }

\* ---------------------------------------------------------- configuration
Ms == (1..MaxM) \cup {inputDimension}

\* the coarsest level is not empty
NonEmpty(m, k) == m \div Pow2(k - 1) >= 1

Divisible(m, k) == m % Pow2(k - 1) = 0

InitRest ==
    /\ pc = "new"
    /\ noise_inputs = << >>
    /\ current_channels = 0
    /\ current_noise_aggregate = None
    /\ level = 0
    /\ low_res_out = None
    /\ high_res_out = None
    /\ final_chain = None
    /\ output = None
    /\ i = 0
    /\ samples = 0
    /\ noise = [frames |-> << >>, sample |-> 0]
    /\ feed_dict = << >>
    /\ updates = 0
    /\ last_update = << >>
    /\ checkpoints = << >>
    /\ images = << >>
    /\ network_out = [nan |-> FALSE, n |-> 0]
    /\ img_out = 0

\* The shape parameters and the run length are varied separately: small runs
\* over every M, K, B, and runs of every length with the program's own
\* M = 224, K = 5, B = 1.  The literal 224 of lines 100 and 127 (reference
\* image, reshape of the rendered output) is read as the configured M.
Init ==
    /\ \/ /\ M \in Ms
          /\ K \in 1..MaxK
          /\ B \in 1..MaxB
          /\ epochs \in 0..SmallEpochs
          /\ NonEmpty(M, K)
       \/ /\ M = inputDimension
          /\ K = defaultK
          /\ B = batchSize
          /\ epochs \in 0..MaxEpochs
    /\ InitRest
    /\ jb_lower = None
    /\ jb_higher = None
    /\ jb_out = None

joinVars == << jb_lower, jb_higher, jb_out >>
configVars == << M, K, B, epochs >>
buildVars == << noise_inputs, current_channels, current_noise_aggregate, level,
                low_res_out, high_res_out, final_chain, output >>
trainVars == << i, samples, noise, feed_dict, updates, last_update,
                checkpoints, images, network_out, img_out >>

\* ------------------------------------------------- TextureNetwork.__init__
\* lines 85-87
BuildInputs ==
    /\ pc = "new"
    /\ noise_inputs' = input_pyramid("noise", M, B, K)
    /\ current_channels' = baseChannels
    /\ current_noise_aggregate' = noise_inputs'[1]
    /\ pc' = "build"
    /\ UNCHANGED << configVars, level, low_res_out, high_res_out, final_chain,
                    output, trainVars, joinVars >>

\* the higher-resolution chain is given the running width
BuildLevel_wide ==
    /\ pc = "build"
    /\ level + 1 < Len(noise_inputs)
    /\ LET noise_frame == noise_inputs[level + 2] IN
        /\ low_res_out' = conv_chain("chain_lower", current_noise_aggregate, current_channels)
        /\ high_res_out' = conv_chain("chain_higher", noise_frame, current_channels)
        /\ current_channels' = current_channels + channelStepSize
        /\ current_noise_aggregate' = join_block("join", low_res_out', high_res_out')
    /\ level' = level + 1
    /\ UNCHANGED << configVars, pc, noise_inputs, final_chain, output, trainVars, joinVars >>

\* lines 88-92: one pass of the loop over self.noise_inputs[1:]
BuildLevel ==
    /\ pc = "build"
    /\ level + 1 < Len(noise_inputs)
    /\ LET noise_frame == noise_inputs[level + 2] IN
        /\ low_res_out' = conv_chain("chain_lower", current_noise_aggregate, current_channels)
        /\ high_res_out' = conv_chain("chain_higher", noise_frame, channelStepSize)
        /\ current_channels' = current_channels + channelStepSize
        /\ current_noise_aggregate' = join_block("join", low_res_out', high_res_out')
    /\ level' = level + 1
    /\ UNCHANGED << configVars, pc, noise_inputs, final_chain, output, trainVars, joinVars >>

\* lines 93-94
BuildOutput ==
    /\ pc = "build"
    /\ level + 1 >= Len(noise_inputs)
    /\ final_chain' = conv_chain("output_chain", current_noise_aggregate, current_channels)
    /\ output' = conv_block("output", final_chain', 1, outputChannels)
    /\ pc' = "constructed"
    /\ UNCHANGED << configVars, noise_inputs, current_channels, current_noise_aggregate,
                    level, low_res_out, high_res_out, trainVars, joinVars >>

\* ------------------------------------------------ TextureNetwork.run_train
\* lines 107-117: optimizer, saver, session, variable initialisation
StartTrain ==
    /\ pc = "constructed"
    /\ pc' = "loop"
    /\ i' = 0
    /\ updates' = 0
    /\ UNCHANGED << configVars, buildVars, samples, noise, feed_dict, last_update,
                    checkpoints, images, network_out, img_out, joinVars >>

\* the pyramid is sampled in the first iteration only and reused afterwards
SampleNoise_cached ==
    /\ pc = "loop"
    /\ i < epochs
    /\ feed_dict' = << >>
    /\ samples' = IF i = 0 THEN samples + 1 ELSE samples
    /\ noise' = IF i = 0 THEN [frames |-> noise_pyramid(M, B, K), sample |-> samples']
                ELSE noise
    /\ pc' = "bind"
    /\ UNCHANGED << configVars, buildVars, i, updates, last_update, checkpoints,
                    images, network_out, img_out, joinVars >>

\* lines 118-120: next value of i, empty feed_dict, fresh noise pyramid
SampleNoise ==
    /\ pc = "loop"
    /\ i < epochs
    /\ feed_dict' = << >>
    /\ samples' = samples + 1
    /\ noise' = [frames |-> noise_pyramid(M, B, K), sample |-> samples']
    /\ pc' = "bind"
    /\ UNCHANGED << configVars, buildVars, i, updates, last_update, checkpoints,
                    images, network_out, img_out, joinVars >>

\* lines 121-122: the loop over enumerate(self.noise_inputs)
BindNoise ==
    /\ pc = "bind"
    /\ Len(noise.frames) >= Len(noise_inputs)
    /\ feed_dict' = [index \in 1..Len(noise_inputs) |->
                        [array |-> noise.frames[index], sample |-> noise.sample]]
    /\ pc' = "step"
    /\ UNCHANGED << configVars, buildVars, i, samples, noise, updates, last_update,
                    checkpoints, images, network_out, img_out, joinVars >>

\* every placeholder is fed an array of the placeholder's shape
Feedable(fd) ==
    /\ DOMAIN fd = DOMAIN noise_inputs
    /\ \A index \in DOMAIN noise_inputs : Shape(fd[index].array) = Shape(noise_inputs[index])

\* a second update is applied at the checkpoint interval
TrainStep_twice ==
    /\ pc = "step"
    /\ Feedable(feed_dict)
    /\ updates' = IF i % checkpointInterval = 0 /\ i > 0 THEN updates + 2 ELSE updates + 1
    /\ last_update' = [index \in DOMAIN feed_dict |-> feed_dict[index].sample]
    /\ pc' = "check"
    /\ UNCHANGED << configVars, buildVars, i, samples, noise, feed_dict, checkpoints,
                    images, network_out, img_out, joinVars >>

\* line 123
TrainStep ==
    /\ pc = "step"
    /\ Feedable(feed_dict)
    /\ updates' = updates + 1
    /\ last_update' = [index \in DOMAIN feed_dict |-> feed_dict[index].sample]
    /\ pc' = "check"
    /\ UNCHANGED << configVars, buildVars, i, samples, noise, feed_dict, checkpoints,
                    images, network_out, img_out, joinVars >>

\* the interval is counted in completed steps
SaveDue_counted == (i + 1) % checkpointInterval = 0

SaveDue == i > 0 /\ i % checkpointInterval = 0

\* line 125, condition false
SkipSave ==
    /\ pc = "check"
    /\ ~SaveDue
    /\ i' = i + 1
    /\ pc' = "loop"
    /\ UNCHANGED << configVars, buildVars, samples, noise, feed_dict, updates,
                    last_update, checkpoints, images, network_out, img_out, joinVars >>

\* lines 125-126
SaveCheckpoint ==
    /\ pc = "check"
    /\ SaveDue
    /\ checkpoints' = Append(checkpoints, [key |-> i, params |-> updates])
    /\ pc' = "render"
    /\ UNCHANGED << configVars, buildVars, i, samples, noise, feed_dict, updates,
                    last_update, images, network_out, img_out, joinVars >>

\* the image is rendered from a newly sampled pyramid
RenderImage_resampled ==
    /\ pc = "render"
    /\ Feedable(feed_dict)
    /\ \E v \in PixelValues :
        /\ network_out' = v
        /\ img_out' \in ImgOut(v)
    /\ samples' = samples + 1
    /\ images' = Append(images, [key |-> i, params |-> updates,
                                 fed |-> [index \in DOMAIN feed_dict |-> samples'],
                                 shape |-> << inputDimension, inputDimension, outputChannels >>,
                                 pixel |-> img_out'])
    /\ i' = i + 1
    /\ pc' = "loop"
    /\ UNCHANGED << configVars, buildVars, noise, feed_dict, updates,
                    last_update, checkpoints, joinVars >>

\* lines 127-129
RenderImage ==
    /\ pc = "render"
    /\ Feedable(feed_dict)
    /\ \E v \in PixelValues :
        /\ network_out' = v
        /\ img_out' \in ImgOut(v)
    /\ images' = Append(images, [key |-> i, params |-> updates,
                                 fed |-> [index \in DOMAIN feed_dict |-> feed_dict[index].sample],
                                 shape |-> << inputDimension, inputDimension, outputChannels >>,
                                 pixel |-> img_out'])
    /\ i' = i + 1
    /\ pc' = "loop"
    /\ UNCHANGED << configVars, buildVars, samples, noise, feed_dict, updates,
                    last_update, checkpoints, joinVars >>

\* line 118: range(self.epochs) is exhausted
Finish ==
    /\ pc = "loop"
    /\ i >= epochs
    /\ pc' = "done"
    /\ UNCHANGED << configVars, buildVars, trainVars, joinVars >>

Next ==
    \/ BuildInputs
    \/ BuildLevel
    \/ BuildOutput
    \/ StartTrain
    \/ SampleNoise
    \/ BindNoise
    \/ TrainStep
    \/ SkipSave
    \/ SaveCheckpoint
    \/ RenderImage
    \/ Finish

Spec == Init /\ [][Next]_vars

\* the single thread of control runs every enabled step
FairSpec == Spec /\ WF_vars(Next)

\* ------------------------------------------ join_block on arbitrary inputs
TestTensors(tag) ==
    { [b |-> b_, h |-> h_, w |-> w_, chans |-> Tags(c_, tag)] :
        b_ \in 1..MaxB, h_ \in 1..MaxDim, w_ \in 1..MaxDim, c_ \in 1..MaxChan }

JoinInit ==
    /\ M = inputDimension
    /\ K = defaultK
    /\ B = batchSize
    /\ epochs = 0
    /\ InitRest
    /\ jb_lower \in TestTensors("lower")
    /\ jb_higher \in TestTensors("higher")
    /\ jb_lower.b = jb_higher.b
    /\ jb_out = None

\* lines 62-70 applied to the two inputs
JoinCall ==
    /\ jb_out = None
    /\ jb_lower # None
    /\ jb_out' = join_block("join", jb_lower, jb_higher)
    /\ UNCHANGED << configVars, pc, buildVars, trainVars, jb_lower, jb_higher >>

JoinNext == JoinCall

JoinSpec == JoinInit /\ [][JoinNext]_vars

\* ================================================================= claims
Sampled == noise.frames # << >>
Constructed == pc \notin {"new", "build"}

\* C1: for M divisible by 2^(K-1), noise_pyramid(M, B, K) returns exactly K
\* tensors of shapes (B, s, s, 3) whose sizes s are M/2^(K-1), ..., M/2, M
\* in that order: coarsest first, strictly increasing, M last.
C1_PyramidShapes ==
    (Sampled /\ Divisible(M, K)) =>
        /\ Len(noise.frames) = K
        /\ \A j \in 1..K :
            LET t == noise.frames[j] IN
            /\ t.b = B
            /\ t.h = t.w
            /\ t.h * Pow2(K - j) = M
            /\ Len(t.chans) = 3
        /\ \A j \in 1..(K - 1) : noise.frames[j].h < noise.frames[j + 1].h
        /\ noise.frames[K].h = M

C1_Witness ==
    /\ Sampled
    /\ Divisible(M, K)
    /\ K = 3
    /\ M = 12
    /\ B = 2

\* C3: when M is not divisible by 2^(K-1) the pyramid is never built: the
\* construction fails, so neither the placeholders exist nor any optimizer
\* update ever runs.
C3_IndivisibleRejected ==
    ~Divisible(M, K) => (noise_inputs = << >> /\ ~Sampled /\ updates = 0)

\* C4: with K = 5 and M = 224 the pyramid sizes are 14, 28, 56, 112, 224 and
\* the generator's output has shape (batch, 224, 224, 3).
C4_OutputShape ==
    (Constructed /\ K = 5 /\ M = 224) =>
        /\ [j \in 1..5 |-> noise_inputs[j].h] = << 14, 28, 56, 112, 224 >>
        /\ Shape(output) = << B, 224, 224, 3 >>

C4_Witness ==
    /\ pc = "constructed"
    /\ K = 5
    /\ M = 224
    /\ level = 4

\* C6: join_block returns a tensor with the higher-resolution input's
\* height and width and c1 + c2 channels, the lower-resolution input's
\* channels first.
C6_JoinShape ==
    (jb_out # None) =>
        LET c1 == Len(jb_lower.chans)
            c2 == Len(jb_higher.chans)
        IN  /\ jb_out.b = jb_higher.b
            /\ jb_out.h = jb_higher.h
            /\ jb_out.w = jb_higher.w
            /\ Len(jb_out.chans) = c1 + c2
            /\ \A c \in 1..c1 : jb_out.chans[c] = jb_lower.chans[c]
            /\ \A c \in 1..c2 : jb_out.chans[c1 + c] = jb_higher.chans[c]

C6_Witness ==
    /\ jb_out # None
    /\ jb_lower.h = 1
    /\ jb_lower.w = 2
    /\ jb_higher.h = 3
    /\ jb_higher.w = 2
    /\ Len(jb_lower.chans) = 2
    /\ Len(jb_higher.chans) = 3

Keys(sink) == [k \in 1..Len(sink) |-> sink[k].key]

\* C2 as stated: a run of exactly epochs = 20 steps ends with exactly one
\* checkpoint and exactly one rendered image, both keyed 20.
C2_Original ==
    (pc = "done" /\ epochs = 20) =>
        /\ Keys(checkpoints) = << 20 >>
        /\ Keys(images) = << 20 >>

\* C2 (amended): a run of exactly epochs = 21 steps (loop indices 0..20) ends
\* with exactly one checkpoint and exactly one rendered image, both keyed
\* 20; a run of exactly epochs = 20 steps ends with neither.
C2_OneSnapshotAfter21 ==
    /\ (pc = "done" /\ epochs = 21) =>
            (Keys(checkpoints) = << 20 >> /\ Keys(images) = << 20 >>)
    /\ (pc = "done" /\ epochs = 20) =>
            (checkpoints = << >> /\ images = << >>)

C2_Witness ==
    /\ pc = "done"
    /\ epochs = 21
    /\ Len(checkpoints) = 1
    /\ Len(images) = 1

\* C5: the loop ends after exactly epochs iterations with exactly one
\* optimizer update per iteration: the number of updates equals the number
\* of iterations begun, never exceeds epochs, equals epochs at the end, and
\* the end is always reached.
C5_Counts ==
    /\ i <= epochs
    /\ samples = updates + (IF pc \in {"bind", "step"} THEN 1 ELSE 0)
    /\ pc \in {"loop", "bind", "step", "done"} => updates = i
    /\ pc \in {"bind", "step", "check", "render"} => i < epochs
    /\ pc \in {"check", "render"} => updates = i + 1
    /\ pc = "done" => (i = epochs /\ updates = epochs)

C5_ExactlyEpochsUpdates == [] C5_Counts /\ <>(pc = "done")

C5_Witness ==
    /\ pc = "done"
    /\ epochs = 25
    /\ updates = 25

\* the value n / PixDen scaled by 255, clipped to [0, 255], fraction dropped
ScaledClippedTruncated(n, byte) ==
    /\ n <= 0 => byte = 0
    /\ n >= PixDen => byte = 255
    /\ (0 < n /\ n < PixDen) =>
            (byte * PixDen <= 255 * n /\ 255 * n < (byte + 1) * PixDen)

\* the value n / PixDen clipped to [0, 255] and rounded to a nearest integer
ClippedRounded(n, byte) ==
    /\ n <= 0 => byte = 0
    /\ n >= 255 * PixDen => byte = 255
    /\ (0 < n /\ n < 255 * PixDen) =>
            (2 * byte * PixDen - PixDen <= 2 * n /\ 2 * n <= 2 * byte * PixDen + PixDen)

Rendered == images # << >> /\ pc # "render"

\* C7 as stated: every pixel handed to the image sink is a byte in 0..255
\* obtained from the generated pixel value by clipping it to [0,255] and
\* rounding it to the nearest integer.
C7_Original ==
    Rendered =>
        /\ images[Len(images)].pixel = img_out
        /\ img_out \in 0..255
        /\ ~network_out.nan => ClippedRounded(network_out.n, img_out)

\* C7 (amended): every pixel handed to the image sink is a byte in 0..255;
\* for a generated pixel value that is not NaN it is that value multiplied
\* by 255, clipped to [0,255], with the fractional part dropped.
C7_ScaledClippedTruncated ==
    /\ \A k \in 1..Len(images) : images[k].pixel \in 0..255
    /\ Rendered =>
        /\ images[Len(images)].pixel = img_out
        /\ ~network_out.nan => ScaledClippedTruncated(network_out.n, img_out)

C7_Witness ==
    /\ Rendered
    /\ ~network_out.nan
    /\ network_out.n = 255
    /\ img_out = 127

Width(t) == Len(t.chans)

C8_PerLevel ==
    (pc = "build" /\ level >= 1) =>
        /\ Width(low_res_out) = baseChannels + (level - 1) * channelStepSize
        /\ Width(high_res_out) = channelStepSize
        /\ Width(current_noise_aggregate) = Width(low_res_out) + Width(high_res_out)
        /\ Width(current_noise_aggregate) = current_channels
        /\ current_channels = baseChannels + level * channelStepSize

C8_FinalChain ==
    Width(final_chain) = current_channels /\ current_channels = Width(current_noise_aggregate)

C9_FreshNoiseBound ==
    /\ pc \in {"step", "check", "render"} =>
        /\ noise.sample = i + 1
        /\ Len(noise_inputs) = K
        /\ DOMAIN feed_dict = 1..K
        /\ \A index \in 1..K :
            /\ feed_dict[index].array = noise.frames[index]
            /\ feed_dict[index].sample = i + 1
            /\ Shape(feed_dict[index].array) = Shape(noise_inputs[index])
        /\ \A index \in 1..(K - 1) :
            /\ noise_inputs[index].h <= noise_inputs[index + 1].h
            /\ noise.frames[index].h <= noise.frames[index + 1].h
    /\ updates > 0 => last_update = [index \in 1..K |-> updates]

C9_Witness ==
    /\ pc = "check"
    /\ i = 1
    /\ K = 4
    /\ M = 8
    /\ updates = 2

C10_Paired ==
    /\ Len(checkpoints) = Len(images) + (IF pc = "render" THEN 1 ELSE 0)
    /\ pc = "render" => checkpoints[Len(checkpoints)].key = i
    /\ \A k \in 1..Len(checkpoints) : checkpoints[k].params = checkpoints[k].key + 1
    /\ \A k \in 1..Len(images) :
        /\ images[k].key = checkpoints[k].key
        /\ images[k].params = checkpoints[k].params
        /\ images[k].fed = [index \in 1..K |-> images[k].key + 1]

Snapshotting == (pc = "check" /\ SaveDue) \/ pc = "render"

\* C10: a checkpoint and an image are always written as a pair in the same
\* iteration with the same key i, after that iteration's update and with no
\* update between them: the checkpoint keyed i holds the parameters after
\* i+1 updates, the image keyed i is rendered from the same parameters and
\* from the pyramid sampled in iteration i, and neither step changes the
\* parameters or draws a sample.
C10_SnapshotPairs ==
    /\ [] C10_Paired
    /\ [][Snapshotting => (updates' = updates /\ samples' = samples /\ noise' = noise)]_vars

C10_Witness ==
    /\ pc = "loop"
    /\ Len(images) = 2
    /\ images[2].key = 40
    /\ checkpoints[2].params = 41

====
